---- MODULE Spec2Model ----
(***************************************************************************)
(* A model of simpleget (src/simpleget/__main__.py): the prequeue command  *)
(* that decides which feed items to upload to nzbget, and the postqueue    *)
(* command that moves a finished download into the TV-show library.        *)
(*                                                                         *)
(* Strings.  A file, directory or release name is modelled as the sequence *)
(* of its separator-delimited tokens ("Abcde.S01E01.1080p.WEB.mkv" is      *)
(* <<"Abcde","S01E01","1080p","WEB","mkv">>); a path is the sequence of    *)
(* its '/'-separated names.  Case conversions are tables over the tokens.  *)
(* The n-gram similarity of the ngram package is modelled by giving every  *)
(* title word its set of n-grams: similarity = shared / all n-grams.       *)
(* NGram.find keeps the names whose similarity is at least the threshold,  *)
(* Episode.__eq__ asks for a similarity above it.                          *)
(*                                                                         *)
(* File system.  Paths are absolute; the libraries lie outside the         *)
(* download directory and their roots hold show folders only.  The order   *)
(* of the entries is the order in which listdir and iglob enumerate them.  *)
(* The size of an entry is what os.path.getsize returns for it, for a      *)
(* directory the size of its own entry.                                    *)
(*                                                                         *)
(* Spec is prequeue, run once and then once more as a new process;         *)
(* SpecPost is one postqueue invocation; SpecRace is two postqueue         *)
(* invocations running at the same time, their steps interleaved.          *)
(***************************************************************************)
EXTENDS Integers, Sequences, FiniteSets, TLC

\* ------------------------------------------------------------------ tokens

\* THRESHOLD = 0.6, in hundredths.
THRESHOLD == 60

\* str.lower() on the tokens of the model.
Lower(t) ==
    CASE t = "Abcde" -> "abcde"
      [] t = "Abcd" -> "abcd"
      [] t = "Abc" -> "abc"
      [] t = "Xy" -> "xy"
      [] t = "S01E01" -> "s01e01"
      [] t = "S01E02" -> "s01e02"
      [] t = "S02E01" -> "s02e01"
      [] t = "WEB" -> "web"
      [] t = "MKV" -> "mkv"
      [] t = "Rarbg" -> "rarbg"
      [] OTHER -> t

\* str.title() on the tokens that can stand in a title.
TitleCase(t) ==
    CASE t = "abcde" -> "Abcde"
      [] t = "abcd" -> "Abcd"
      [] t = "abc" -> "Abc"
      [] t = "xy" -> "Xy"
      [] OTHER -> t

\* The tokens matched by [s|S]?([0-9]{1,2})[x|X|e|E]([0-9]{2}) (re.I).
IsMarker(t) == Lower(t) \in {"s01e01", "s01e02", "s02e01"}

\* int(m.group(2)): the season of a marker token.
SeasonOf(t) == IF Lower(t) = "s02e01" THEN 2 ELSE 1

\* int(m.group(3)): the episode of a marker token.
EpisodeOf(t) == IF Lower(t) = "s01e02" THEN 2 ELSE 1

\* The tokens matched by (1080p|2160p) (re.I).
IsResolution(t) == t \in {"1080p", "2160p"}

\* f's{e.season:>02}e{e.episode:>02}'
FormatSE(s, e) ==
    CASE s = 1 /\ e = 1 -> "s01e01"
      [] s = 1 /\ e = 2 -> "s01e02"
      [] s = 2 /\ e = 1 -> "s02e01"
      [] OTHER -> "s00e00"

\* The n-grams of a title word (abstract identities of the n-grams).
WordGrams(t) ==
    CASE t = "Abcde" -> {1, 2, 3, 4, 5}
      [] t = "Abcd" -> {1, 2, 3, 4}
      [] t = "Abc" -> {1, 2, 3}
      [] t = "Xy" -> {6, 7}
      [] OTHER -> {}

\* The n-grams of a string: those of its words.
Grams(name) == UNION {WordGrams(name[i]) : i \in 1..Len(name)}

\* str.lower() on a string of several tokens.
LowerAll(s) == [i \in 1..Len(s) |-> Lower(s[i])]

\* str.title() on a string of several tokens.
TitleAll(s) == [i \in 1..Len(s) |-> TitleCase(s[i])]

\* ---------------------------------------------------------------- episodes

\* parse_episode raising ValueError: the text is not an episode name.
NotAnEpisode == [title |-> <<>>, season |-> 0, episode |-> 0, trailer |-> <<>>]

\* The marker the greedy (.+) group leaves to the season/episode groups: the
\* last marker token that has a title before it and a resolution after it.
MarkerIndexes(text) ==
    {m \in 2..Len(text) : /\ IsMarker(text[m])
                          /\ \E r \in (m+1)..Len(text) : IsResolution(text[r])}

Max(S) == CHOOSE x \in S : \A y \in S : y <= x

\* parse_episode(text): title, season, episode, trailer of a release name.
parse_episode(text) ==
    IF MarkerIndexes(text) = {} THEN NotAnEpisode
    ELSE LET m == Max(MarkerIndexes(text))
             r == Max({i \in (m+1)..Len(text) : IsResolution(text[i])})
         IN [title   |-> TitleAll(SubSeq(text, 1, m - 1)),
             season  |-> SeasonOf(text[m]),
             episode |-> EpisodeOf(text[m]),
             trailer |-> SubSeq(text, r, Len(text))]

\* NGram.compare(a, b) > THRESHOLD: shared n-grams over all n-grams.
SimilarAbove(a, b) ==
    LET same == Cardinality(Grams(a) \cap Grams(b))
        all  == Cardinality(Grams(a) \cup Grams(b))
    IN all > 0 /\ 100 * same > THRESHOLD * all

\* Episode.__eq__: the same broadcast episode.
EpisodeEq(a, b) ==
    /\ SimilarAbove(a.title, b.title)
    /\ a.season = b.season
    /\ a.episode = b.episode

\* e in found
InFound(e, fnd) == \E i \in 1..Len(fnd) : EpisodeEq(fnd[i], e)

\* ------------------------------------------------------------- file system

\* The file system is the sequence of its entries [path, kind, size], in the
\* order in which the operating system enumerates them.

\* os.path.exists
exists(fsys, p) == \E i \in 1..Len(fsys) : fsys[i].path = p

\* os.path.isdir
isdir(fsys, p) == \E i \in 1..Len(fsys) : fsys[i].path = p /\ fsys[i].kind = "dir"

\* os.path.isfile
isfile(fsys, p) == \E i \in 1..Len(fsys) : fsys[i].path = p /\ fsys[i].kind = "file"

\* d is p or an ancestor of p.
IsPrefix(d, p) == Len(d) <= Len(p) /\ SubSeq(p, 1, Len(d)) = d

\* os.path.basename
basename(p) == p[Len(p)]

\* os.path.dirname
dirname(p) == SubSeq(p, 1, Len(p) - 1)

\* os.listdir(d): the names of the entries directly inside d.
listdir(fsys, d) ==
    LET Child(x) == Len(x.path) = Len(d) + 1 /\ IsPrefix(d, x.path)
        kept == SelectSeq(fsys, Child)
    IN [i \in 1..Len(kept) |-> basename(kept[i].path)]

\* iglob(escape(d) + '/**/*', recursive=True): every entry below d.
iglob(fsys, d) ==
    LET Below(x) == Len(x.path) > Len(d) /\ IsPrefix(d, x.path)
        kept == SelectSeq(fsys, Below)
    IN [i \in 1..Len(kept) |-> kept[i].path]

\* ------------------------------------------------- series and episodes

\* find() and exists_series() returning None.
None == <<>>

\* The n-gram similarity of two strings, as the pair <<shared, all>>.
Similarity(a, b) ==
    <<Cardinality(Grams(a) \cap Grams(b)), Cardinality(Grams(a) \cup Grams(b))>>

\* NGram.search keeps an item when its similarity is at least the threshold.
Accepts(name, title) ==
    LET s == Similarity(name, title)
    IN s[2] > 0 /\ 100 * s[1] >= THRESHOLD * s[2]

\* similarity(a, title) > similarity(b, title)
Better(a, b, title) ==
    LET sa == Similarity(a, title)
        sb == Similarity(b, title)
    IN sa[1] * sb[2] > sb[1] * sa[2]

\* NGram(names).find(title, THRESHOLD): the most similar accepted name (of
\* equally similar names the first listed), None when no name is accepted.
find(names, title) ==
    LET ok == {i \in 1..Len(names) : Accepts(names[i], title)}
    IN IF ok = {} THEN None
       ELSE names[CHOOSE i \in ok :
                    \A j \in ok : /\ ~Better(names[j], names[i], title)
                                  /\ (j < i => Better(names[i], names[j], title))]

RECURSIVE exists_series_from(_, _, _, _)
\* The loop of exists_series from the k-th library on.
exists_series_from(fsys, library, title, k) ==
    IF k > Len(library) THEN None
    ELSE LET f == find(listdir(fsys, library[k]), title)
         IN IF f # None THEN Append(library[k], f)
            ELSE exists_series_from(fsys, library, title, k + 1)

\* exists_series taking the most similar folder of all libraries together.
exists_series_merged(fsys, library, title) ==
    LET cands == {c \in {fsys[i].path : i \in 1..Len(fsys)} :
                     /\ \E k \in 1..Len(library) : dirname(c) = library[k]
                     /\ Accepts(basename(c), title)}
    IN IF cands = {} THEN None
       ELSE CHOOSE c \in cands :
               \A d \in cands : ~Better(basename(d), basename(c), title)

\* exists_series(library, title): full path to the series, or None.
exists_series(fsys, library, title) == exists_series_from(fsys, library, title, 1)

RECURSIVE AddParsed_unchecked(_, _, _)
\* The loop appending every parsed episode, in found already or not.
AddParsed_unchecked(fnd, names, k) ==
    IF k > Len(names) THEN fnd
    ELSE LET episode == parse_episode(names[k])
         IN IF episode = NotAnEpisode
            THEN AddParsed_unchecked(fnd, names, k + 1)
            ELSE AddParsed_unchecked(Append(fnd, episode), names, k + 1)

RECURSIVE AddParsed(_, _, _)
\* for n in names: try: episode = parse_episode(n); if episode not in found:
\* found.append(episode); except ValueError: continue   (from the k-th name)
AddParsed(fnd, names, k) ==
    IF k > Len(names) THEN fnd
    ELSE LET episode == parse_episode(names[k])
         IN IF episode = NotAnEpisode \/ InFound(episode, fnd)
            THEN AddParsed(fnd, names, k + 1)
            ELSE AddParsed(Append(fnd, episode), names, k + 1)

\* exists_episode(library, e, nzbget) on the global found: the new value of
\* found, the value returned, and the number of listgroups/history fetches.
\* groups is what nzbget.listgroups(0) + nzbget.history(False) returns.
exists_episode(fsys, library, e, nzbget, fnd, groups) ==
    LET hydrate == nzbget /\ Len(fnd) = 0
        f1 == IF hydrate THEN AddParsed(fnd, groups, 1) ELSE fnd
        calls == IF hydrate THEN 1 ELSE 0
        destination_dir == exists_series(fsys, library, e.title)
        globbed == iglob(fsys, destination_dir)
        f2 == AddParsed(f1, [i \in 1..Len(globbed) |-> basename(globbed[i])], 1)
    IN IF InFound(e, f1) THEN [found |-> f1, ret |-> TRUE, calls |-> calls]
       ELSE IF destination_dir = None
            THEN [found |-> f1, ret |-> FALSE, calls |-> calls]
            ELSE [found |-> f2, ret |-> InFound(e, f2), calls |-> calls]

\* ---------------------------------------------------------------- prequeue

VARIABLES
    fs,         \* the file system
    library,    \* --library: the paths of the TV-show libraries, in order
    feed,       \* response['entries']: the titles of the feed items
    bozo,       \* response['bozo']: the feed is malformed
    get_all,    \* --get-all
    no_pilots,  \* --no-pilots
    no_upload,  \* --no-upload
    queue,      \* the names nzbget lists in its download queue and history
    queue0,     \* queue as it was when this run started
    found,      \* the global list found
    idx,        \* the number of feed items the loop has finished
    pc,         \* where prequeue is: start, loop, upload, finished, fatal
    log,        \* this run's record of each finished item
    prev,       \* the log and the queue0 of the first run, once a second runs
    run,        \* 1 for the first invocation of prequeue, 2 for the second
    uploads,    \* the nzbget.append calls made by this run, with their results
    fetches,    \* how many times this run fetched nzbget's queue and history
    post        \* the postqueue invocations

vars == <<fs, library, feed, bozo, get_all, no_pilots, no_upload, queue, queue0,
          found, idx, pc, log, prev, run, uploads, fetches, post>>

\* The longest feed of the model.
MaxFeed == 2

\* A directory and a file of the file system.
Dir(p) == [path |-> p, kind |-> "dir", size |-> 0]
File(p, n) == [path |-> p, kind |-> "file", size |-> n]

\* A directory for which os.path.getsize returns n, the size of the
\* directory's own entry in the file system.
DirOfSize(p, n) == [path |-> p, kind |-> "dir", size |-> n]

\* f'Season {e.season:>02}'
SeasonName(s) == <<"Season", IF s = 1 THEN "01" ELSE IF s = 2 THEN "02" ELSE "00">>

\* The library roots of the model.
Tv1 == << <<"tv1">> >>
Tv2 == << <<"tv2">> >>

\* The libraries prequeue is run on: an empty library; a library that holds
\* episode 2 of Abcde; two libraries, the first with the show folders Abc
\* and Abcde and the second with a show folder Abcd that holds episode 1; a
\* library whose folder Abc holds two files that are not the same episode as
\* each other.
PreLibraries ==
    { [library |-> <<Tv1>>,
       fs |-> <<Dir(Tv1)>>],
      [library |-> <<Tv1>>,
       fs |-> <<Dir(Tv1), Dir(Tv1 \o << <<"Abcde">> >>),
                Dir(Tv1 \o << <<"Abcde">>, SeasonName(1) >>),
                File(Tv1 \o << <<"Abcde">>, SeasonName(1),
                               <<"abcde", "s01e02", "1080p", "web", "mkv">> >>, 2)>>],
      [library |-> <<Tv1, Tv2>>,
       fs |-> <<Dir(Tv1), Dir(Tv1 \o << <<"Abc">> >>),
                Dir(Tv1 \o << <<"Abcde">> >>),
                Dir(Tv2), Dir(Tv2 \o << <<"Abcd">> >>),
                Dir(Tv2 \o << <<"Abcd">>, SeasonName(1) >>),
                File(Tv2 \o << <<"Abcd">>, SeasonName(1),
                               <<"abcd", "s01e01", "1080p", "web", "mkv">> >>, 2)>>],
      [library |-> <<Tv1>>,
       fs |-> <<Dir(Tv1), Dir(Tv1 \o << <<"Abc">> >>),
                File(Tv1 \o << <<"Abc">>,
                               <<"abcde", "s01e01", "1080p", "web", "mkv">> >>, 2),
                File(Tv1 \o << <<"Abc">>,
                               <<"abc", "s01e01", "1080p", "web", "mkv">> >>, 2)>>] }

\* The titles of the feed items: four episodes and a title that is none.
FeedTitles ==
    { <<"Abcde", "S01E01", "1080p", "WEB">>,
      <<"Abcd", "S01E01", "1080p", "WEB">>,
      <<"Abcde", "S01E02", "1080p", "WEB">>,
      <<"Xy", "S02E01", "1080p", "WEB">>,
      <<"Xy", "nfo">> }

\* The feeds of at most MaxFeed items.
Feeds == UNION {[1..n -> FeedTitles] : n \in 0..MaxFeed}

\* What nzbget holds before the first run: nothing, only a name that is no
\* episode, or an episode and such a name.
Queues ==
    { <<>>,
      << <<"Xy", "nfo">> >>,
      << <<"Abcde", "S01E01", "1080p", "WEB">>, <<"Xy", "nfo">> >> }

\* A postqueue invocation that was not started.
Idle ==
    [pc |-> "idle", directory |-> <<>>, filename |-> <<>>, path |-> <<>>,
     source |-> <<>>, e |-> NotAnEpisode, destination |-> <<>>, fs0 |-> <<>>,
     trace |-> <<>>, error |-> ""]

InitPre ==
    /\ \E l \in PreLibraries : library = l.library /\ fs = l.fs
    /\ feed \in Feeds
    /\ bozo \in BOOLEAN
    /\ get_all \in BOOLEAN
    /\ no_pilots \in BOOLEAN
    /\ no_upload \in BOOLEAN
    /\ queue \in Queues
    /\ queue0 = queue
    /\ found = <<>>
    /\ idx = 0
    /\ pc = "start"
    /\ log = <<>>
    /\ prev = [log |-> <<>>, queue0 |-> <<>>]
    /\ run = 1
    /\ uploads = <<>>
    /\ fetches = 0
    /\ post = [p \in {1, 2} |-> Idle]

\* nzbget created whatever --no-upload says.
nzbget_always == TRUE

\* nzbget = None if no_upload else ServerProxy(nzbget_url)
nzbget == ~no_upload

\* skip with the get-all rule applied after the exists_episode rule.
skip_of_get_all_last(resolved, e, existed) ==
    LET s1 == IF resolved THEN FALSE ELSE TRUE
        s2 == IF ~no_pilots /\ e.season = 1 /\ e.episode = 1 THEN FALSE ELSE s1
        s3 == IF existed THEN TRUE ELSE s2
    IN IF get_all THEN FALSE ELSE s3

\* skip without the get-all rule.
skip_of_no_get_all(resolved, e, existed) ==
    LET s1 == IF resolved THEN FALSE ELSE TRUE
        s2 == IF ~no_pilots /\ e.season = 1 /\ e.episode = 1 THEN FALSE ELSE s1
    IN IF existed THEN TRUE ELSE s2

\* skip with the pilot rule taking episode 1 of any season.
skip_of_pilot_any_season(resolved, e, existed) ==
    LET s1 == IF resolved THEN FALSE ELSE TRUE
        s2 == IF ~no_pilots /\ e.episode = 1 THEN FALSE ELSE s1
        s3 == IF get_all THEN FALSE ELSE s2
    IN IF existed THEN TRUE ELSE s3

\* skip starting out as False.
skip_of_default_fetch(resolved, e, existed) ==
    LET s0 == FALSE
        s1 == IF resolved THEN FALSE ELSE s0
        s2 == IF ~no_pilots /\ e.season = 1 /\ e.episode = 1 THEN FALSE ELSE s1
        s3 == IF get_all THEN FALSE ELSE s2
    IN IF existed THEN TRUE ELSE s3

\* skip forced to True by --no-upload.
skip_of_no_upload(resolved, e, existed) ==
    LET s1 == IF resolved THEN FALSE ELSE TRUE
        s2 == IF ~no_pilots /\ e.season = 1 /\ e.episode = 1 THEN FALSE ELSE s1
        s3 == IF get_all THEN FALSE ELSE s2
        s4 == IF existed THEN TRUE ELSE s3
    IN IF no_upload THEN TRUE ELSE s4

\* The value of skip once the rules of the loop body have run: resolved is
\* exists_series(library, e.title) not being None, existed is what
\* exists_episode(library, e, nzbget) returned.
skip_of(resolved, e, existed) ==
    LET s0 == TRUE
        s1 == IF resolved THEN FALSE ELSE s0
        s2 == IF ~no_pilots /\ e.season = 1 /\ e.episode = 1 THEN FALSE ELSE s1
        s3 == IF get_all THEN FALSE ELSE s2
        s4 == IF existed THEN TRUE ELSE s3
    IN s4

\* found.append(e) left out.
record_fetch_never(fnd, e, skip) == fnd

\* found.append(e), which only an item that is not skipped reaches.
record_fetch(fnd, e, skip) == IF skip THEN fnd ELSE Append(fnd, e)

\* The start of prequeue going on to the items of a malformed feed.
Start_ignore_bozo ==
    /\ pc = "start"
    /\ pc' = "loop"
    /\ UNCHANGED <<fs, library, feed, bozo, get_all, no_pilots, no_upload, queue,
                   queue0, found, idx, log, prev, run, uploads, fetches, post>>

\* The start of prequeue: retrieve the feed, raise when it is malformed.
Start ==
    /\ pc = "start"
    /\ pc' = IF bozo THEN "fatal" ELSE "loop"
    /\ UNCHANGED <<fs, library, feed, bozo, get_all, no_pilots, no_upload, queue,
                   queue0, found, idx, log, prev, run, uploads, fetches, post>>

\* One pass of the loop body up to found.append(e): parse the title, decide.
Decide ==
    /\ pc = "loop"
    /\ idx < Len(feed)
    /\ LET title == feed[idx + 1]
           e == parse_episode(title)
           series == exists_series(fs, library, e.title)
           r == exists_episode(fs, library, e, nzbget, found, queue)
           skip == skip_of(series # None, e, r.ret)
       IN IF e = NotAnEpisode
          THEN /\ log' = Append(log, [title |-> title, e |-> e, series |-> None,
                                      existed |-> FALSE, before |-> found,
                                      oracle |-> found, after |-> found,
                                      decision |-> "skip"])
               /\ idx' = idx + 1
               /\ UNCHANGED <<found, fetches, pc>>
          ELSE /\ found' = record_fetch(r.found, e, skip)
               /\ fetches' = fetches + r.calls
               /\ log' = Append(log, [title |-> title, e |-> e, series |-> series,
                                      existed |-> r.ret, before |-> found,
                                      oracle |-> r.found,
                                      after |-> record_fetch(r.found, e, skip),
                                      decision |-> IF skip THEN "skip" ELSE "fetch"])
               /\ IF ~skip /\ nzbget
                  THEN pc' = "upload" /\ idx' = idx
                  ELSE pc' = "loop" /\ idx' = idx + 1
    /\ UNCHANGED <<fs, library, feed, bozo, get_all, no_pilots, no_upload, queue,
                   queue0, prev, run, uploads, post>>

\* title if title.endswith('.nzb') else title + '.nzb'
NzbName(title) == IF title[Len(title)] = "nzb" THEN title ELSE Append(title, "nzb")

\* Upload taking the episode out of found again when nzbget.append fails.
Upload_rollback ==
    /\ pc = "upload"
    /\ \E result \in {0, 1} :
          /\ uploads' = Append(uploads, [name |-> NzbName(feed[idx + 1]),
                                         item |-> idx + 1, result |-> result])
          /\ queue' = IF result < 1 THEN queue ELSE Append(queue, feed[idx + 1])
          /\ found' = IF result < 1 THEN SubSeq(found, 1, Len(found) - 1) ELSE found
    /\ idx' = idx + 1
    /\ pc' = "loop"
    /\ UNCHANGED <<fs, library, feed, bozo, get_all, no_pilots, no_upload,
                   queue0, log, prev, run, fetches, post>>

\* Upload letting the ValueError of a failed nzbget.append end the run.
Upload_abort ==
    /\ pc = "upload"
    /\ \E result \in {0, 1} :
          /\ uploads' = Append(uploads, [name |-> NzbName(feed[idx + 1]),
                                         item |-> idx + 1, result |-> result])
          /\ queue' = IF result < 1 THEN queue ELSE Append(queue, feed[idx + 1])
          /\ pc' = IF result < 1 THEN "fatal" ELSE "loop"
    /\ idx' = idx + 1
    /\ UNCHANGED <<fs, library, feed, bozo, get_all, no_pilots, no_upload,
                   queue0, found, log, prev, run, fetches, post>>

\* The rest of the loop body: nzbget.append, which returns a result below 1
\* when it fails; nzbget lists what it accepted in its queue from then on.
Upload ==
    /\ pc = "upload"
    /\ \E result \in {0, 1} :
          /\ uploads' = Append(uploads, [name |-> NzbName(feed[idx + 1]),
                                         item |-> idx + 1, result |-> result])
          /\ queue' = IF result < 1 THEN queue ELSE Append(queue, feed[idx + 1])
    /\ idx' = idx + 1
    /\ pc' = "loop"
    /\ UNCHANGED <<fs, library, feed, bozo, get_all, no_pilots, no_upload,
                   queue0, found, log, prev, run, fetches, post>>

\* The loop has gone through every item: prequeue returns.
Finish ==
    /\ pc = "loop"
    /\ idx = Len(feed)
    /\ pc' = "finished"
    /\ UNCHANGED <<fs, library, feed, bozo, get_all, no_pilots, no_upload, queue,
                   queue0, found, idx, log, prev, run, uploads, fetches, post>>

\* prequeue is invoked again, as a new process: found = [] once more.
NewRun ==
    /\ pc = "finished"
    /\ run = 1
    /\ run' = 2
    /\ found' = <<>>
    /\ idx' = 0
    /\ pc' = "start"
    /\ prev' = [log |-> log, queue0 |-> queue0]
    /\ queue0' = queue
    /\ log' = <<>>
    /\ uploads' = <<>>
    /\ fetches' = 0
    /\ UNCHANGED <<fs, library, feed, bozo, get_all, no_pilots, no_upload, queue,
                   post>>

Next == Start \/ Decide \/ Upload \/ Finish \/ NewRun

Spec == InitPre /\ [][Next]_vars

\* --------------------------------------------------------------- postqueue

\* The download directory of the model.
Bt == << <<"bt">> >>

\* The tokens in the order of their character codes.
TokenOrder ==
    <<"01", "02", "0f9c", "1080p", "2160p", "Abc", "Abcd", "Abcde", "MKV", "Rarbg",
      "S01E01", "S01E02", "S02E01", "Season", "WEB", "Xy", "abc", "abcd", "abcde",
      "bt", "mkv", "nfo", "nzb", "rarbg", "s01e01", "s01e02", "s02e01", "sample",
      "tv1", "tv2", "web", "xy">>

TokenRank(t) == CHOOSE i \in 1..Len(TokenOrder) : TokenOrder[i] = t

\* a < b for two names, as Python compares the strings.
NameLess(a, b) ==
    \E k \in 1..Len(b) :
        /\ \A i \in 1..(k - 1) : i <= Len(a) /\ a[i] = b[i]
        /\ \/ k > Len(a)
           \/ TokenRank(a[k]) < TokenRank(b[k])

\* os.path.getsize
getsize(fsys, p) == (CHOOSE x \in {fsys[i] : i \in 1..Len(fsys)} : x.path = p).size

\* sorted((getsize(s), s) for s in listdir(path))[-1][1]: the name of the
\* entry of path with the largest (size, name).
largest(fsys, path) ==
    LET names == {listdir(fsys, path)[i] : i \in 1..Len(listdir(fsys, path))}
        Size(n) == getsize(fsys, Append(path, n))
    IN CHOOSE n \in names :
          \A o \in names \ {n} :
              \/ Size(o) < Size(n)
              \/ Size(o) = Size(n) /\ NameLess(o, n)

RECURSIVE parse_components_outward(_, _)
\* The components tried from the root inward instead.
parse_components_outward(source, k) ==
    LET i == Len(source) + 1 - k
    IN IF k = 0 THEN NotAnEpisode
       ELSE IF parse_episode(source[i]) # NotAnEpisode THEN parse_episode(source[i])
            ELSE parse_components_outward(source, k - 1)

RECURSIVE parse_components(_, _)
\* for p in reversed(source.split('/')): the first component, from the k-th
\* down, that parse_episode accepts; False (NotAnEpisode) when none does.
parse_components(source, k) ==
    IF k = 0 THEN NotAnEpisode
    ELSE IF parse_episode(source[k]) # NotAnEpisode THEN parse_episode(source[k])
         ELSE parse_components(source, k - 1)

\* _, ext = splitext(source): the last token of the file name, when it has
\* more than one; the empty extension otherwise.
splitext(source) ==
    LET name == basename(source)
    IN IF Len(name) > 1 THEN <<name[Len(name)]>> ELSE <<>>

\* name.endswith(ext)
endswith(name, ext) ==
    \/ ext = <<>>
    \/ Len(name) > 1 /\ name[Len(name)] = ext[1]

\* format_episode writing a series that is not found to the last library.
format_episode_last_library(fsys, lib, e) ==
    LET found_dir == exists_series(fsys, lib, e.title)
        destination_dir == IF found_dir = None THEN Append(lib[Len(lib)], e.title)
                           ELSE found_dir
        ti == LowerAll(e.title)
        tr == LowerAll(e.trailer)
        filename == ti \o <<FormatSE(e.season, e.episode)>> \o tr
    IN destination_dir \o <<SeasonName(e.season), filename>>

\* format_episode(library, e): the full path to the destination file.
format_episode(fsys, lib, e) ==
    LET found_dir == exists_series(fsys, lib, e.title)
        destination_dir == IF found_dir = None THEN Append(lib[1], e.title)
                           ELSE found_dir
        ti == LowerAll(e.title)
        tr == LowerAll(e.trailer)
        filename == ti \o <<FormatSE(e.season, e.episode)>> \o tr
    IN destination_dir \o <<SeasonName(e.season), filename>>

\* The destination postqueue computes for a source file parsed as e.
destination_of(fsys, lib, source, e) ==
    LET ext == splitext(source)
        destination == format_episode(fsys, lib, e)
    IN IF endswith(basename(destination), ext) THEN destination
       ELSE dirname(destination) \o <<basename(destination) \o ext>>

\* The entries of makedirs(d, exist_ok=True): the missing ancestors of d and
\* d itself, outermost first.
makedirs(fsys, d) ==
    LET Missing(k) == ~exists(fsys, SubSeq(d, 1, k))
        ks == SelectSeq([k \in 1..Len(d) |-> k], Missing)
    IN fsys \o [i \in 1..Len(ks) |-> Dir(SubSeq(d, 1, ks[i]))]

\* makedirs raising: an ancestor of d, or d, is a file.
makedirs_fails(fsys, d) == \E k \in 1..Len(d) : isfile(fsys, SubSeq(d, 1, k))

\* shutil.move(src, dst) of a file raising: no source, no directory to move
\* into, or dst a directory that already holds the name.
move_fails(fsys, src, dst) ==
    \/ ~isfile(fsys, src)
    \/ ~isdir(fsys, dirname(dst))
    \/ isdir(fsys, dst) /\ exists(fsys, Append(dst, basename(src)))

\* shutil.move(src, dst) of a file: into dst when dst is a directory, else
\* renamed to dst, replacing a file that is there.
move(fsys, src, dst) ==
    LET real_dst == IF isdir(fsys, dst) THEN Append(dst, basename(src)) ELSE dst
        Stays(x) == x.path # src /\ x.path # real_dst
    IN Append(SelectSeq(fsys, Stays), File(real_dst, getsize(fsys, src)))

\* shutil.rmtree(d)
rmtree(fsys, d) ==
    LET Stays(x) == ~IsPrefix(d, x.path)
    IN SelectSeq(fsys, Stays)

\* The libraries postqueue is run on: empty; a show folder Abcd, which the
\* title Abcde resolves to; the episode already in place; two libraries
\* with the show folder in the second.
PostLibraries ==
    { [library |-> <<Tv1>>,
       fs |-> <<Dir(Tv1)>>],
      [library |-> <<Tv1>>,
       fs |-> <<Dir(Tv1), Dir(Tv1 \o << <<"Abcd">> >>)>>],
      [library |-> <<Tv1>>,
       fs |-> <<Dir(Tv1), Dir(Tv1 \o << <<"Abcde">> >>),
                Dir(Tv1 \o << <<"Abcde">>, SeasonName(1) >>),
                File(Tv1 \o << <<"Abcde">>, SeasonName(1),
                               <<"abcde", "s01e01", "1080p", "web", "mkv">> >>, 3)>>],
      [library |-> <<Tv1, Tv2>>,
       fs |-> <<Dir(Tv1), Dir(Tv2), Dir(Tv2 \o << <<"Abcde">> >>)>>] }

\* The names of the release directory, of the release directory of another
\* show, of a release file, of one with an upper-case extension, of a release
\* file of another show, of an obfuscated file and of a file that is no
\* episode.
RelDir == <<"Abcde", "S01E01", "1080p", "WEB">>
OtherDir == <<"Xy", "S02E01", "1080p", "Rarbg">>
UpperFile == <<"Abcde", "S01E01", "1080p", "WEB", "MKV">>
RelFile == <<"Abcde", "S01E01", "1080p", "WEB", "mkv">>
OtherFile == <<"Xy", "S02E01", "1080p", "Rarbg", "mkv">>
HashFile == <<"0f9c", "mkv">>
NfoFile == <<"sample", "nfo">>

\* The downloads postqueue is called for, each with --directory and
\* --filename (empty when not given): a release directory with the release
\* file and a sample, given as a directory and as a file; with an
\* obfuscated file; with the file of another show; an empty one; a single
\* release file and a single obfuscated file in the download directory; a
\* release directory with an obfuscated file inside the release directory of
\* another show; a release directory with a file in upper-case extension; a
\* release directory with a small release file next to a subdirectory.
Downloads ==
    { [directory |-> Append(Bt, RelDir), filename |-> <<>>,
       fs |-> <<Dir(Bt), Dir(Append(Bt, RelDir)),
                File(Bt \o <<RelDir, NfoFile>>, 1),
                File(Bt \o <<RelDir, RelFile>>, 4)>>],
      [directory |-> Append(Bt, RelDir), filename |-> RelFile,
       fs |-> <<Dir(Bt), Dir(Append(Bt, RelDir)),
                File(Bt \o <<RelDir, NfoFile>>, 1),
                File(Bt \o <<RelDir, RelFile>>, 4)>>],
      [directory |-> Append(Bt, RelDir), filename |-> <<>>,
       fs |-> <<Dir(Bt), Dir(Append(Bt, RelDir)),
                File(Bt \o <<RelDir, HashFile>>, 4),
                File(Bt \o <<RelDir, NfoFile>>, 1)>>],
      [directory |-> Append(Bt, RelDir), filename |-> <<>>,
       fs |-> <<Dir(Bt), Dir(Append(Bt, RelDir)),
                File(Bt \o <<RelDir, OtherFile>>, 4)>>],
      [directory |-> Append(Bt, RelDir), filename |-> <<>>,
       fs |-> <<Dir(Bt), Dir(Append(Bt, RelDir)),
                Dir(Bt \o <<RelDir, <<"sample">> >>)>>],
      [directory |-> Bt, filename |-> RelFile,
       fs |-> <<Dir(Bt), File(Append(Bt, RelFile), 4)>>],
      [directory |-> Bt, filename |-> HashFile,
       fs |-> <<Dir(Bt), File(Append(Bt, HashFile), 4)>>],
      [directory |-> Bt \o <<OtherDir, RelDir>>, filename |-> <<>>,
       fs |-> <<Dir(Bt), Dir(Append(Bt, OtherDir)), Dir(Bt \o <<OtherDir, RelDir>>),
                File(Bt \o <<OtherDir, RelDir, HashFile>>, 4)>>],
      [directory |-> Append(Bt, RelDir), filename |-> <<>>,
       fs |-> <<Dir(Bt), Dir(Append(Bt, RelDir)),
                File(Bt \o <<RelDir, UpperFile>>, 4)>>],
      [directory |-> Append(Bt, RelDir), filename |-> <<>>,
       fs |-> <<Dir(Bt), Dir(Append(Bt, RelDir)),
                File(Bt \o <<RelDir, RelFile>>, 1),
                DirOfSize(Bt \o <<RelDir, <<"sample">> >>, 2)>>] }

\* The postqueue invocations of a specification.
PostProcs == {p \in DOMAIN post : post[p].pc # "idle"}

\* prequeue is not running.
PreIdle ==
    /\ feed = <<>>
    /\ bozo = FALSE
    /\ get_all = FALSE
    /\ no_pilots = FALSE
    /\ no_upload = FALSE
    /\ queue = <<>>
    /\ queue0 = <<>>
    /\ found = <<>>
    /\ idx = 0
    /\ pc = "idle"
    /\ log = <<>>
    /\ prev = [log |-> <<>>, queue0 |-> <<>>]
    /\ run = 1
    /\ uploads = <<>>
    /\ fetches = 0

\* postqueue called with --directory and --filename.
Called(directory, filename) ==
    [Idle EXCEPT !.pc = "locate", !.directory = directory, !.filename = filename]

InitPost ==
    /\ PreIdle
    /\ \E l \in PostLibraries : \E d \in Downloads :
          /\ library = l.library
          /\ fs = l.fs \o d.fs
          /\ post = [p \in {1, 2} |-> IF p = 1 THEN Called(d.directory, d.filename)
                                      ELSE Idle]

\* The invocation p ends with an uncaught ValueError or OSError.
Raise(p, why) == post' = [post EXCEPT ![p].pc = "fatal", ![p].error = why]

\* path = source = join(directory, filename); the largest file of a directory.
PostLocate(p) ==
    /\ post[p].pc = "locate"
    /\ LET path == IF post[p].filename = <<>> THEN post[p].directory
                   ELSE Append(post[p].directory, post[p].filename)
           source == IF ~isdir(fs, path) THEN path
                     ELSE IF Len(listdir(fs, path)) = 0 THEN None
                     ELSE Append(path, largest(fs, path))
       IN IF source = None THEN Raise(p, "empty directory")
          ELSE IF ~isfile(fs, source) THEN Raise(p, "not a file")
          ELSE post' = [post EXCEPT ![p].pc = "plan", ![p].path = path,
                                    ![p].source = source, ![p].fs0 = fs]
    /\ UNCHANGED <<fs, library, feed, bozo, get_all, no_pilots, no_upload, queue,
                   queue0, found, idx, pc, log, prev, run, uploads, fetches>>

\* Parse a component of the path as the episode, compute the destination.
PostPlan(p) ==
    /\ post[p].pc = "plan"
    /\ LET e == parse_components(post[p].source, Len(post[p].source))
       IN IF e = NotAnEpisode THEN Raise(p, "could not be parsed")
          ELSE post' = [post EXCEPT
                          ![p].pc = "check",
                          ![p].e = e,
                          ![p].destination =
                              destination_of(fs, library, post[p].source, e)]
    /\ UNCHANGED <<fs, library, feed, bozo, get_all, no_pilots, no_upload, queue,
                   queue0, found, idx, pc, log, prev, run, uploads, fetches>>

\* postqueue without the check of the destination.
PostCheck_no_guard(p) ==
    /\ post[p].pc = "check"
    /\ post' = [post EXCEPT ![p].pc = "makedirs", ![p].trace = Append(@, "check")]
    /\ UNCHANGED <<fs, library, feed, bozo, get_all, no_pilots, no_upload, queue,
                   queue0, found, idx, pc, log, prev, run, uploads, fetches>>

\* if exists(destination): raise ValueError
PostCheck(p) ==
    /\ post[p].pc = "check"
    /\ IF exists(fs, post[p].destination)
       THEN post' = [post EXCEPT ![p].pc = "fatal", ![p].error = "already exists",
                                 ![p].trace = Append(@, "check")]
       ELSE post' = [post EXCEPT ![p].pc = "makedirs",
                                 ![p].trace = Append(@, "check")]
    /\ UNCHANGED <<fs, library, feed, bozo, get_all, no_pilots, no_upload, queue,
                   queue0, found, idx, pc, log, prev, run, uploads, fetches>>

\* makedirs(dirname(destination), exist_ok=True)
PostMakedirs(p) ==
    /\ post[p].pc = "makedirs"
    /\ IF makedirs_fails(fs, dirname(post[p].destination))
       THEN Raise(p, "makedirs failed") /\ UNCHANGED fs
       ELSE /\ fs' = makedirs(fs, dirname(post[p].destination))
            /\ post' = [post EXCEPT ![p].pc = "move",
                                    ![p].trace = Append(@, "makedirs")]
    /\ UNCHANGED <<library, feed, bozo, get_all, no_pilots, no_upload, queue,
                   queue0, found, idx, pc, log, prev, run, uploads, fetches>>

\* A move whose failure is followed by the clean-up all the same.
PostMove_then_cleanup(p) ==
    /\ post[p].pc = "move"
    /\ \E refused \in BOOLEAN :
          IF refused \/ move_fails(fs, post[p].source, post[p].destination)
          THEN /\ post' = [post EXCEPT ![p].pc = "cleanup",
                                       ![p].error = "move failed"]
               /\ UNCHANGED fs
          ELSE /\ fs' = move(fs, post[p].source, post[p].destination)
               /\ post' = [post EXCEPT ![p].pc = "cleanup",
                                       ![p].trace = Append(@, "move")]
    /\ UNCHANGED <<library, feed, bozo, get_all, no_pilots, no_upload, queue,
                   queue0, found, idx, pc, log, prev, run, uploads, fetches>>

\* A move that refuses to replace a destination that is there.
PostMove_atomic(p) ==
    /\ post[p].pc = "move"
    /\ \E refused \in BOOLEAN :
          IF exists(fs, post[p].destination)
          THEN Raise(p, "already exists") /\ UNCHANGED fs
          ELSE IF refused \/ move_fails(fs, post[p].source, post[p].destination)
          THEN Raise(p, "move failed") /\ UNCHANGED fs
          ELSE /\ fs' = move(fs, post[p].source, post[p].destination)
               /\ post' = [post EXCEPT ![p].pc = "cleanup",
                                       ![p].trace = Append(@, "move")]
    /\ UNCHANGED <<library, feed, bozo, get_all, no_pilots, no_upload, queue,
                   queue0, found, idx, pc, log, prev, run, uploads, fetches>>

\* move(source, destination), which the operating system may also refuse.
PostMove(p) ==
    /\ post[p].pc = "move"
    /\ \E refused \in BOOLEAN :
          IF refused \/ move_fails(fs, post[p].source, post[p].destination)
          THEN Raise(p, "move failed") /\ UNCHANGED fs
          ELSE /\ fs' = move(fs, post[p].source, post[p].destination)
               /\ post' = [post EXCEPT ![p].pc = "cleanup",
                                       ![p].trace = Append(@, "move")]
    /\ UNCHANGED <<library, feed, bozo, get_all, no_pilots, no_upload, queue,
                   queue0, found, idx, pc, log, prev, run, uploads, fetches>>

\* if isdir(path): rmtree(path); postqueue returns.
PostCleanup(p) ==
    /\ post[p].pc = "cleanup"
    /\ IF isdir(fs, post[p].path)
       THEN /\ fs' = rmtree(fs, post[p].path)
            /\ post' = [post EXCEPT ![p].pc = "finished",
                                    ![p].trace = Append(@, "rmtree")]
       ELSE /\ post' = [post EXCEPT ![p].pc = "finished"]
            /\ UNCHANGED fs
    /\ UNCHANGED <<library, feed, bozo, get_all, no_pilots, no_upload, queue,
                   queue0, found, idx, pc, log, prev, run, uploads, fetches>>

NextPost ==
    \/ \E p \in PostProcs : PostLocate(p)
    \/ \E p \in PostProcs : PostPlan(p)
    \/ \E p \in PostProcs : PostCheck(p)
    \/ \E p \in PostProcs : PostMakedirs(p)
    \/ \E p \in PostProcs : PostMove(p)
    \/ \E p \in PostProcs : PostCleanup(p)

SpecPost == InitPost /\ [][NextPost]_vars

\* The download directory two postqueue invocations work in at a time: the
\* release directory with the release file and a sample, the same release
\* as a single file, and the release directory of another show.
RaceFs ==
    <<Dir(Bt), Dir(Append(Bt, RelDir)),
      File(Bt \o <<RelDir, NfoFile>>, 1),
      File(Bt \o <<RelDir, RelFile>>, 4),
      File(Append(Bt, RelFile), 3),
      Dir(Append(Bt, OtherDir)),
      File(Bt \o <<OtherDir, OtherFile>>, 2)>>

\* What postqueue is called for in that directory.
RaceCalls ==
    { [directory |-> Append(Bt, RelDir), filename |-> <<>>],
      [directory |-> Bt, filename |-> RelFile],
      [directory |-> Append(Bt, OtherDir), filename |-> <<>>] }

\* Two postqueue processes started by the download client at the same time.
InitRace ==
    /\ PreIdle
    /\ \E l \in PostLibraries : \E c \in RaceCalls : \E d \in RaceCalls :
          /\ library = l.library
          /\ fs = l.fs \o RaceFs
          /\ post = [p \in {1, 2} |-> IF p = 1 THEN Called(c.directory, c.filename)
                                      ELSE Called(d.directory, d.filename)]

\* The steps of the two processes interleave.
SpecRace == InitRace /\ [][NextPost]_vars

\* ------------------------------------------------------- claims on prequeue

\* The feed items of this run that nzbget.append was called for.
Submitted == {uploads[k].item : k \in 1..Len(uploads)}

\* The item was parsed as an episode.
Parsed(x) == x.e # NotAnEpisode

\* C1: a feed item whose episode exists_episode reports as present is
\* skipped: the loop does not append it to found and does not upload it,
\* whatever get-all and no-pilots are and whether its show folder resolves.
C1_DedupAlwaysWins ==
    \A i \in 1..Len(log) :
        log[i].existed =>
            /\ log[i].decision = "skip"
            /\ log[i].after = log[i].oracle
            /\ i \notin Submitted

\* C1 witness: with get-all set and pilots allowed, a first episode whose
\* show folder resolves was reported present.
C1_Witness ==
    /\ get_all
    /\ ~no_pilots
    /\ \E i \in 1..Len(log) :
          /\ log[i].existed
          /\ log[i].series # None
          /\ log[i].e.season = 1
          /\ log[i].e.episode = 1

\* C2 as stated: with get-all set no parsable item is skipped for being
\* already present.
C2_GetAllDisablesDedup ==
    get_all =>
        \A i \in 1..Len(log) :
            Parsed(log[i]) => ~(log[i].existed /\ log[i].decision = "skip")

\* C2 amended: with get-all set a parsable item is skipped exactly when
\* exists_episode reports its episode as present: get-all overrides the
\* show-folder and pilot rules, not the dedup.
C2_GetAllSkipsOnlyPresent ==
    get_all =>
        \A i \in 1..Len(log) :
            Parsed(log[i]) => (log[i].decision = "skip" <=> log[i].existed)

\* C2 witness: with get-all set, an episode that is not present, is no pilot
\* and has no show folder was decided fetch, and another was skipped as
\* present.
C2_Witness ==
    /\ get_all
    /\ \E i \in 1..Len(log) :
          /\ Parsed(log[i])
          /\ ~log[i].existed
          /\ log[i].series = None
          /\ log[i].e.episode # 1
          /\ log[i].decision = "fetch"
    /\ \E j \in 1..Len(log) : log[j].existed /\ log[j].decision = "skip"

\* C3: an item decided fetch is in found before nzbget.append is called, and
\* no later item of the feed that is the same broadcast episode is decided
\* fetch or uploaded.
C3_FetchedOnce ==
    /\ pc = "upload" =>
          /\ Len(found) > 0
          /\ found[Len(found)] = log[idx + 1].e
    /\ \A i \in 1..Len(log) : \A j \in (i + 1)..Len(log) :
          ( /\ log[i].decision = "fetch"
            /\ Parsed(log[j])
            /\ EpisodeEq(log[i].e, log[j].e) )
          => log[j].decision = "skip" /\ j \notin Submitted

\* C3 witness: with get-all set the upload of a fetched item failed and a
\* later item of the feed is the same broadcast episode under another title.
C3_Witness ==
    /\ get_all
    /\ \E i \in 1..Len(log) : \E j \in (i + 1)..Len(log) :
          /\ log[i].decision = "fetch"
          /\ \E k \in 1..Len(uploads) : uploads[k].item = i /\ uploads[k].result < 1
          /\ Parsed(log[j])
          /\ log[j].e.title # log[i].e.title
          /\ EpisodeEq(log[i].e, log[j].e)

\* C4 as stated: a run fetches nzbget's queue and history at most once.
C4_HydratesAtMostOnce == fetches <= 1

\* C6: with --no-upload every item still gets its decision, nzbget.append is
\* never called, and nzbget's queue and history are never fetched.
C6_NoUploadNoCalls ==
    no_upload =>
        /\ uploads = <<>>
        /\ fetches = 0
        /\ pc # "upload"
        /\ queue = queue0
        /\ pc = "finished" => Len(log) = Len(feed)

\* C6 witness: a --no-upload run finished with an item decided fetch.
C6_Witness ==
    /\ no_upload
    /\ pc = "finished"
    /\ Len(feed) = MaxFeed
    /\ \E i \in 1..Len(log) : log[i].decision = "fetch"

\* C7: a second run on the same feed, started with an empty found and with
\* the library and nzbget's queue and history as the first run found them,
\* decides every item as the first run did.
C7_Idempotent ==
    (run = 2 /\ queue0 = prev.queue0) =>
        /\ \A i \in 1..Len(log) : log[i].decision = prev.log[i].decision
        /\ pc = "finished" => Len(log) = Len(prev.log)

\* C7 witness: the second run finished on an unchanged queue, nzbget in use,
\* with an item fetched and a later one skipped as present.
C7_Witness ==
    /\ run = 2
    /\ pc = "finished"
    /\ queue0 = prev.queue0
    /\ ~no_upload
    /\ \E i \in 1..Len(log) : \E j \in (i + 1)..Len(log) :
          /\ log[i].decision = "fetch"
          /\ log[j].existed

\* ------------------------------------------------------ claims on postqueue

\* The invocation has run the check of the destination.
Checked(p) == Len(post[p].trace) > 0

\* C5: when the destination exists at the check, postqueue ends with the
\* fatal error and the file system is as postqueue found it: the source file,
\* its directory and the destination are untouched and no directory is made.
C5_OverwriteGuard ==
    \A p \in PostProcs :
        (Checked(p) /\ exists(post[p].fs0, post[p].destination)) =>
            /\ post[p].pc = "fatal"
            /\ post[p].error = "already exists"
            /\ fs = post[p].fs0

\* C5 witness: postqueue on a release directory ended on the existing
\* destination.
C5_Witness ==
    \E p \in PostProcs :
        /\ post[p].pc = "fatal"
        /\ post[p].error = "already exists"
        /\ isdir(fs, post[p].path)
        /\ isfile(fs, post[p].source)
        /\ isfile(fs, post[p].destination)

\* The invocation has parsed its episode and computed its destination.
Planned(p) == post[p].e # NotAnEpisode

\* The components of a path that parse as an episode.
ParsableAt(source) == {k \in 1..Len(source) : parse_episode(source[k]) # NotAnEpisode}

\* The file name format_episode gives an episode.
CanonicalName(e) ==
    LowerAll(e.title) \o <<FormatSE(e.season, e.episode)>> \o LowerAll(e.trailer)

\* C8: the episode is that of the deepest component of the source path that
\* parses (the file name when it parses, else the nearest enclosing
\* directory that does), and the destination is named after its title,
\* season, episode and trailer and ends in the extension of the source file.
C8_DeepestComponentWins ==
    \A p \in PostProcs :
        Planned(p) =>
            LET source == post[p].source
                e == parse_episode(source[Max(ParsableAt(source))])
                name == basename(post[p].destination)
            IN /\ ParsableAt(source) # {}
               /\ post[p].e = e
               /\ SubSeq(name, 1, Len(CanonicalName(e))) = CanonicalName(e)
               /\ post[p].destination[Len(post[p].destination) - 1] = SeasonName(e.season)
               /\ splitext(source) # <<>> => name[Len(name)] = splitext(source)[1]

\* C8 witness: the file name does not parse, the directory above it does,
\* as does a directory further out (as another episode), and the file went
\* to the name of the nearest directory plus the extension.
C8_Witness ==
    \E p \in PostProcs :
        /\ post[p].pc = "finished"
        /\ parse_episode(basename(post[p].source)) = NotAnEpisode
        /\ post[p].e = parse_episode(RelDir)
        /\ \E k \in ParsableAt(post[p].source) :
              parse_episode(post[p].source[k]) # post[p].e
        /\ basename(post[p].destination) = <<"abcde", "s01e01", "1080p", "web", "mkv">>
        /\ isfile(fs, post[p].destination)

\* The input of the invocation was a directory.
GivenDirectory(p) == isdir(post[p].fs0, post[p].path)

\* C9: a postqueue that returns has checked, made the directories, moved and
\* (for a directory) removed the source directory, in this order; the
\* destination file is there and the source file is gone; a source directory
\* is gone with all it held, and is never gone unless the move was done; the
\* directory of a single source file stays.
C9_MoveThenCleanup ==
    \A p \in PostProcs :
        /\ post[p].pc = "finished" =>
              /\ post[p].trace = IF GivenDirectory(p)
                                 THEN <<"check", "makedirs", "move", "rmtree">>
                                 ELSE <<"check", "makedirs", "move">>
              /\ isfile(fs, post[p].destination)
              /\ ~exists(fs, post[p].source)
              /\ GivenDirectory(p) =>
                    \A i \in 1..Len(fs) : ~IsPrefix(post[p].path, fs[i].path)
              /\ ~GivenDirectory(p) => isdir(fs, dirname(post[p].source))
        /\ (post[p].pc \notin {"idle", "locate"} /\ GivenDirectory(p)
              /\ ~isdir(fs, post[p].path)) =>
              /\ isfile(fs, post[p].destination)
              /\ post[p].pc = "finished"
        /\ post[p].error = "move failed" =>
              /\ post[p].pc = "fatal"
              /\ isfile(fs, post[p].source)

\* C9 witness: postqueue on a directory with two files returned.
C9_Witness ==
    \E p \in PostProcs :
        /\ post[p].pc = "finished"
        /\ GivenDirectory(p)
        /\ Len(listdir(post[p].fs0, post[p].path)) > 1
        /\ ~isdir(fs, post[p].path)

\* ------------------------------------------------- claims on exists_series

\* The libraries that hold a folder find accepts for the title.
LibrariesWith(title) ==
    {k \in 1..Len(library) :
        \E i \in 1..Len(listdir(fs, library[k])) :
            Accepts(listdir(fs, library[k])[i], title)}

Min(S) == CHOOSE x \in S : \A y \in S : x <= y

LibrariesWith0(p, title) ==
    {k \in 1..Len(library) :
        \E i \in 1..Len(listdir(post[p].fs0, library[k])) :
            Accepts(listdir(post[p].fs0, library[k])[i], title)}

\* C11: the destination is <show directory>/<season directory>/<file>; when
\* a library holds a folder that matches the title, the show directory is
\* the one exists_series returns, an existing matching folder of the first
\* library that has one; otherwise it is a new folder named after the parsed
\* title inside the first library, never inside a later one.
C11_ShowDirectory ==
    \A p \in PostProcs :
        Planned(p) =>
            LET e == post[p].e
                show == dirname(dirname(post[p].destination))
                with == LibrariesWith0(p, e.title)
            IN IF with # {}
               THEN /\ show = exists_series(post[p].fs0, library, e.title)
                    /\ dirname(show) = library[Min(with)]
                    /\ Accepts(basename(show), e.title)
                    /\ isdir(post[p].fs0, show)
               ELSE /\ show = Append(library[1], e.title)
                    /\ ~exists(post[p].fs0, show)

\* C11 witness: with two libraries and no folder for the show in either,
\* postqueue returned and the file is under a new folder of the first.
C11_Witness ==
    \E p \in PostProcs :
        /\ post[p].pc = "finished"
        /\ Len(library) > 1
        /\ LibrariesWith0(p, post[p].e.title) = {}
        /\ isfile(fs, post[p].destination)
        /\ dirname(dirname(dirname(post[p].destination))) = library[1]
        /\ basename(dirname(dirname(post[p].destination))) = post[p].e.title

\* ------------------------------------------ claims on the errors of prequeue

\* C12: when the feed is malformed prequeue raises before the loop: no item
\* is decided, found stays empty, nzbget.append is not called and nzbget's
\* queue and history are not fetched.
C12_MalformedFeedFatal ==
    bozo =>
        /\ pc \in {"start", "fatal"}
        /\ run = 1
        /\ idx = 0
        /\ log = <<>>
        /\ found = <<>>
        /\ uploads = <<>>
        /\ fetches = 0
        /\ queue = queue0

\* C12 witness: prequeue ended fatally on a malformed feed whose items it
\* would otherwise have fetched and uploaded.
C12_Witness ==
    /\ bozo
    /\ pc = "fatal"
    /\ get_all
    /\ ~no_upload
    /\ Len(feed) = MaxFeed
    /\ \A i \in 1..Len(feed) : parse_episode(feed[i]) # NotAnEpisode

\* C13: a title that does not parse and an nzbget.append that fails never
\* end the run: unless the feed is malformed prequeue never ends fatally; the
\* loop has been through exactly the items before the one it is at, failed
\* or not, and is never past the end of the feed, so that its next step
\* takes up the next item or returns; and when prequeue returns every item
\* of the feed has been through the loop.
C13_ItemFailuresDoNotAbort ==
    /\ ~bozo => pc # "fatal"
    /\ pc = "loop" => (Len(log) = idx /\ idx <= Len(feed))
    /\ pc = "upload" => (Len(log) = idx + 1 /\ idx < Len(feed))
    /\ pc = "finished" => (idx = Len(feed) /\ Len(log) = Len(feed))
    /\ \A k \in 1..Len(uploads) :
          /\ uploads[k].item <= Len(log)
          /\ (uploads[k].result < 1 /\ pc # "upload") => idx >= uploads[k].item

\* C13 witness: the run returned after a first item whose upload failed or
\* whose title did not parse, and after it a later item was decided fetch
\* and uploaded.
C13_Witness ==
    /\ pc = "finished"
    /\ Len(feed) = MaxFeed
    /\ \/ parse_episode(feed[1]) = NotAnEpisode
       \/ \E k \in 1..Len(uploads) : uploads[k].item = 1 /\ uploads[k].result < 1
    /\ log[MaxFeed].decision = "fetch"
    /\ \E k \in 1..Len(uploads) : uploads[k].item = MaxFeed /\ uploads[k].result = 1

\* ------------------------------------------- claims on the rules of prequeue

\* The item is the first episode of the first season.
IsPilot(x) == x.e.season = 1 /\ x.e.episode = 1

Moved(p) == \E k \in 1..Len(post[p].trace) : post[p].trace[k] = "move"

\* Two invocations with different sources and the same destination, which
\* was not there when either started, have both moved.
BothMoved(p, q) ==
    /\ p # q
    /\ Moved(p)
    /\ Moved(q)
    /\ post[p].source # post[q].source
    /\ post[p].destination = post[q].destination
    /\ ~exists(post[p].fs0, post[p].destination)
    /\ ~exists(post[q].fs0, post[q].destination)

\* C16: the destination is refused only at the check: an invocation that
\* passed the check is never stopped by a destination that appeared later,
\* so that when two invocations with the same destination have both moved,
\* neither has raised, both sources are gone and the destination is one
\* file: the file moved first is overwritten.
C16_CheckThenAct ==
    \A p \in PostProcs :
        /\ post[p].error = "already exists" => post[p].trace = <<"check">>
        /\ \A q \in PostProcs :
              BothMoved(p, q) =>
                  /\ post[p].error = "" /\ post[q].error = ""
                  /\ post[p].pc \in {"cleanup", "finished"}
                  /\ ~exists(fs, post[p].source)
                  /\ ~exists(fs, post[q].source)
                  /\ Cardinality({i \in 1..Len(fs) :
                                     fs[i].path = post[p].destination}) = 1

\* C16 witness: both invocations returned without an error after moving
\* different files to the same destination; the destination is the file of
\* one of them and the file of the other is nowhere.
C16_Witness ==
    \E p \in PostProcs : \E q \in PostProcs :
        /\ BothMoved(p, q)
        /\ post[p].pc = "finished" /\ post[q].pc = "finished"
        /\ post[p].error = "" /\ post[q].error = ""
        /\ getsize(fs, post[q].destination) = getsize(post[q].fs0, post[q].source)
        /\ getsize(post[p].fs0, post[p].source) # getsize(post[q].fs0, post[q].source)
        /\ \A i \in 1..Len(fs) :
              fs[i].kind = "file" =>
                  fs[i].size # getsize(post[p].fs0, post[p].source)

\* C17 as stated: with --no-upload every item is decided skip and the loop
\* appends no episode to found.
C17_NoUploadAllSkip ==
    no_upload =>
        \A i \in 1..Len(log) :
            /\ log[i].decision = "skip"
            /\ log[i].after = log[i].oracle

\* C17 amended: --no-upload forces no skip: an item is decided by the same
\* rules as in a run that uploads; an item decided fetch is appended to
\* found and only its upload is left out.
C17_NoUploadDecidesAsUsual ==
    no_upload =>
        \A i \in 1..Len(log) :
            Parsed(log[i]) =>
                /\ log[i].decision = "fetch"
                      <=> /\ ~log[i].existed
                          /\ \/ log[i].series # None
                             \/ IsPilot(log[i]) /\ ~no_pilots
                             \/ get_all
                /\ log[i].decision = "fetch" =>
                      /\ log[i].after = Append(log[i].oracle, log[i].e)
                      /\ i \notin Submitted
                /\ log[i].decision = "skip" => log[i].after = log[i].oracle

\* C17 witness: a --no-upload run returned with an item decided fetch, which
\* is in found, and a later item of the same episode skipped as present.
C17_Witness ==
    /\ no_upload
    /\ pc = "finished"
    /\ uploads = <<>>
    /\ \E i \in 1..Len(log) : \E j \in (i + 1)..Len(log) :
          /\ log[i].decision = "fetch"
          /\ InFound(log[i].e, found)
          /\ ~InFound(log[i].e, log[i].oracle)
          /\ EpisodeEq(log[i].e, log[j].e)
          /\ log[j].existed
          /\ log[j].decision = "skip"

\* --------------------------------------------- claims on the source file

\* join(directory, filename) of the invocation.
InputPath(p) ==
    IF post[p].filename = <<>> THEN post[p].directory
    ELSE Append(post[p].directory, post[p].filename)

\* The file system as the invocation found it.
InputFs(p) == IF post[p].fs0 # <<>> THEN post[p].fs0 ELSE fs

\* The names of the regular files directly inside a directory.
RegularFiles(fsys, d) ==
    {n \in {listdir(fsys, d)[i] : i \in 1..Len(listdir(fsys, d))} :
        isfile(fsys, Append(d, n))}

\* C18 as stated: when the input is a directory that holds a regular file,
\* the source is a regular file of the directory and no regular file of the
\* directory is larger.
C18_LargestRegularFile ==
    \A p \in PostProcs :
        LET path == InputPath(p)
            f == InputFs(p)
        IN ( /\ post[p].pc # "locate"
             /\ isdir(f, path)
             /\ RegularFiles(f, path) # {} ) =>
               /\ dirname(post[p].source) = path
               /\ basename(post[p].source) \in RegularFiles(f, path)
               /\ \A o \in RegularFiles(f, path) :
                     getsize(f, Append(path, o)) <= getsize(f, post[p].source)

\* C19 as stated: the destination file name ends in the extension of the
\* source file, and does not carry it twice, an extension that differs from
\* that of the computed name only in letter case included; a source without
\* an extension leaves the computed name as it is.
C19_ExtensionOnce ==
    \A p \in PostProcs :
        Planned(p) =>
            LET ext == splitext(post[p].source)
                name == basename(post[p].destination)
            IN /\ ext # <<>> => name[Len(name)] = ext[1]
               /\ ext # <<>> =>
                     ~( /\ Len(name) > 2
                        /\ Lower(name[Len(name) - 1]) = Lower(ext[1]) )
               /\ ext = <<>> => name = CanonicalName(post[p].e)

\* ------------------------------------------------------- claims on found

\* No two entries of the list are the same broadcast episode.
NoTwoSame(fnd) ==
    \A i \in 1..Len(fnd) : \A j \in (i + 1)..Len(fnd) : ~EpisodeEq(fnd[i], fnd[j])

\* C20: through the hydration, the disk scans and the fetch decisions of a
\* run found only grows at its end and never holds two entries that are the
\* same broadcast episode, and exists_episode returns True exactly when
\* found, as exists_episode leaves it, holds an entry that is the same
\* broadcast episode as its argument.  (What exists_episode leaves is a
\* prefix of what found is after the item, so the first conjunct covers it.)
C20_FoundSetInvariant ==
    /\ NoTwoSame(found)
    /\ Len(log) > 0 => found = log[Len(log)].after
    /\ Len(log) = 0 => found = <<>>
    /\ \A i \in 1..Len(log) :
          /\ log[i].before = IF i = 1 THEN <<>> ELSE log[i - 1].after
          /\ IsPrefix(log[i].before, log[i].oracle)
          /\ IsPrefix(log[i].oracle, log[i].after)
          /\ Parsed(log[i]) => (log[i].existed <=> InFound(log[i].e, log[i].oracle))

\* C20 witness: one call of exists_episode hydrated found from nzbget and
\* scanned a show folder that holds a file of an episode nzbget had listed
\* and a file of another episode; it returned False, and the item was
\* decided fetch: found holds the three episodes once each.
C20_Witness ==
    /\ fetches = 1
    /\ Len(found) = 3
    /\ \E i \in 1..Len(log) :
          /\ log[i].before = <<>>
          /\ Len(log[i].oracle) = 2
          /\ ~log[i].existed
          /\ log[i].decision = "fetch"
          /\ log[i].series # None
          /\ \E k \in 1..Len(queue0) : \E f \in 1..Len(iglob(fs, log[i].series)) :
                /\ parse_episode(queue0[k]) # NotAnEpisode
                /\ parse_episode(basename(iglob(fs, log[i].series)[f])) # NotAnEpisode
                /\ EpisodeEq(parse_episode(queue0[k]),
                             parse_episode(basename(iglob(fs, log[i].series)[f])))

====
